---- MODULE Spec2Model ----
(***************************************************************************)
(* Account & likes persistence service of src/app.py: the routes           *)
(* /api/register, /api/login, /api/like, /api/liked/{user_id} and /health  *)
(* over the tables users and liked_songs.                                  *)
(*                                                                         *)
(* A request is served by a worker p.  A handler that commits takes two    *)
(* steps, its queries and then its commit; the database is the only state  *)
(* the workers share (several server processes may serve one database), so *)
(* the steps of different requests interleave at these two points.  The    *)
(* tables carry the constraints their declarations state: users.username   *)
(* is unique, liked_songs.user_id is a foreign key to users.id, and        *)
(* liked_songs has no uniqueness constraint on (user_id, song_id).         *)
(* The handlers run against a reachable database; the only database error  *)
(* the code itself handles is the one of the /health probe.                *)
(***************************************************************************)
EXTENDS Integers, FiniteSets, Sequences, TLC

\* Bounds of the model.
NumProcs == 2
MaxLikeId == 2
MaxLeaks == 1

Procs == 1..NumProcs
Usernames == {"alice", "bob"}
Passwords == {"pw1", "pw2"}
Salts == {"s1", "s2"}
UserIds == {1, 2}
Songs == {"T1", "T2"}
Pairs == UserIds \X Songs

VARIABLES
    SessionLocal,   \* TRUE: the session factory exists; FALSE: startup failed (None)
    users,          \* table users: set of rows [id, username, password]
    nextUserId,     \* serial of users.id
    likes,          \* table liked_songs: set of rows [id, user_id, song_id, title, artist, thumbnail]
    nextLikeId,     \* serial of liked_songs.id
    pc,             \* per worker: "idle", or "commit" (queries done, commit pending)
    local,          \* per worker: the handler's pending unit of work
    openSessions,   \* sessions opened and not yet closed
    last,           \* the most recent completed request and its response
    calls,          \* history: per pair, toggle_like calls that reached their commit
    raced,          \* history: per pair, two toggle_like calls on it have overlapped
    orphaned        \* history: per pair, a toggle_like insert was committed with no such user

vars == <<SessionLocal, users, nextUserId, likes, nextLikeId, pc, local,
          openSessions, last, calls, raced, orphaned>>

tables == <<users, likes>>

----------------------------------------------------------------------------
\* Request bodies (data: dict).

\* Bodies with both keys: every username with every password, and one body
\* with an empty username and one with an empty password.
AuthBodies ==
    [username : Usernames, password : Passwords]
        \cup {[username |-> "", password |-> "pw1"],
              [username |-> "alice", password |-> ""]}

FullLikeBodies ==
    [user_id : UserIds, song_id : Songs, title : {"t"}, artist : {"a"}, thumbnail : {"th"}]

LikeKeys == {"user_id", "song_id", "title", "artist", "thumbnail"}

\* A body without one of its keys.
Without(data, k) == [x \in (DOMAIN data) \ {k} |-> data[x]]

LikeBodies ==
    FullLikeBodies \cup {Without(d, k) : d \in FullLikeBodies, k \in LikeKeys}

\* data[k] raises KeyError
KeyError(data, k) == k \notin DOMAIN data

\* not data.get(k)
Falsy(data, k) == k \notin DOMAIN data \/ data[k] = ""

----------------------------------------------------------------------------
\* Auth helpers.

\* bcrypt's digest of a password under a salt: one-way, and different for
\* different (salt, password).
Bcrypt(password, salt) == <<salt, password>>

\* bcrypt.hashpw(password, gensalt()): the salt and the digest, encoded together.
hash_password(password, salt) == [salt |-> salt, digest |-> Bcrypt(password, salt)]

\* A check that accepts every password.
verify_password_any(password, hashed) == TRUE

\* bcrypt.checkpw: re-hash under the stored salt and compare.
verify_password(password, hashed) == Bcrypt(password, hashed.salt) = hashed.digest

----------------------------------------------------------------------------
\* Sessions (get_db).

SessionOpen(n) == n + 1
SessionClose(n) == n - 1

\* A session opened and closed within one step.
Scoped(n) == SessionClose(SessionOpen(n))

NoWork == [op |-> "none"]

Response(route, status, detail, uid, items) ==
    [route |-> route, status |-> status, detail |-> detail,
     user_id |-> uid, items |-> items]

NoItems == <<>>

\* get_db raising HTTPException(503) before the handler runs.
Unavailable(route) == Response(route, 503, "Database service unavailable", 0, NoItems)

\* An exception no handler catches: the framework's generic server error.
ServerError(route, what) == Response(route, 500, what, 0, NoItems)

----------------------------------------------------------------------------
\* Tables and their constraints.

\* A lookup that finds nobody.
UserByNameMissed(us, name) == {}

\* db.query(User).filter(User.username == name): the matching rows.
UserByName(us, name) == {u \in us : u.username = name}

\* A username column without its unique index.
UniqueUsernameUnchecked(us, name) == TRUE

\* users.username is declared unique=True: an INSERT of a taken name is refused.
UniqueUsername(us, name) == \A u \in us : u.username # name

\* A user_id column without its foreign key.
ForeignKeyUnchecked(us, uid) == TRUE

\* liked_songs.user_id is declared ForeignKey("users.id"): an INSERT naming
\* no user is refused.
ForeignKeyOk(us, uid) == \E u \in us : u.id = uid

\* A query that forgets the song_id condition.
ExistingLikesAnySong(ls, uid, sid) == {l \in ls : l.user_id = uid}

\* db.query(LikedSong).filter(user_id == uid, song_id == sid): the matching rows.
ExistingLikes(ls, uid, sid) == {l \in ls : l.user_id = uid /\ l.song_id = sid}

\* An INSERT under a uniqueness constraint on (user_id, song_id).
InsertLikeUnique(ls, row) ==
    IF \E l \in ls : l.user_id = row.user_id /\ l.song_id = row.song_id
    THEN ls ELSE ls \cup {row}

\* INSERT INTO liked_songs: the table has no uniqueness constraint on the pair.
InsertLike(ls, row) == ls \cup {row}

\* DELETE FROM liked_songs WHERE id = row.id: nothing happens if the row is gone.
DeleteLike(ls, row) == ls \ {row}

\* A query that forgets the user_id condition.
LikedByAnyone(ls, uid) == ls

\* db.query(LikedSong).filter(LikedSong.user_id == uid).all()
LikedBy(ls, uid) == {l \in ls : l.user_id = uid}

\* The response list of get_liked, one entry per row; its order is not
\* specified, so it is kept as song id -> number of entries.
Items(rows) ==
    [s \in {l.song_id : l \in rows} |-> Cardinality({l \in rows : l.song_id = s})]

----------------------------------------------------------------------------
Init ==
    /\ SessionLocal \in BOOLEAN
    /\ users = {}
    /\ nextUserId = 1
    /\ likes = {}
    /\ nextLikeId = 1
    /\ pc = [p \in Procs |-> "idle"]
    /\ local = [p \in Procs |-> NoWork]
    /\ openSessions = 0
    /\ last = Response("none", 0, "", 0, NoItems)
    /\ calls = [pr \in Pairs |-> 0]
    /\ raced = [pr \in Pairs |-> FALSE]
    /\ orphaned = [pr \in Pairs |-> FALSE]

history == <<calls, raced, orphaned>>

\* The handler of worker p returns or raises within this step: get_db's
\* finally closes the session it opened.
Finish(p, response) ==
    /\ last' = response
    /\ openSessions' = Scoped(openSessions)
    /\ UNCHANGED <<pc, local>>

\* The handler of worker p goes on to its commit: the session stays open.
Pending(p, work) ==
    /\ pc' = [pc EXCEPT ![p] = "commit"]
    /\ local' = [local EXCEPT ![p] = work]
    /\ openSessions' = SessionOpen(openSessions)
    /\ UNCHANGED last

\* The commit of worker p is over: response, and get_db's finally.
Committed(p, response) ==
    /\ pc' = [pc EXCEPT ![p] = "idle"]
    /\ local' = [local EXCEPT ![p] = NoWork]
    /\ openSessions' = SessionClose(openSessions)
    /\ last' = response

\* A request is served by the lowest worker that is free: workers are
\* interchangeable, so this loses no interleaving of the requests.
Free(p) == pc[p] = "idle" /\ \A q \in Procs : q < p => pc[q] # "idle"

\* get_db with SessionLocal None.
Refuse(route) ==
    /\ last' = Unavailable(route)
    /\ UNCHANGED <<pc, local, openSessions>>

----------------------------------------------------------------------------
\* POST /api/register, up to db.commit().
register(p, data, salt) ==
    /\ Free(p)
    /\ UNCHANGED <<SessionLocal, users, nextUserId, likes, nextLikeId, history>>
    /\ IF ~SessionLocal THEN Refuse("register")
       ELSE IF Falsy(data, "username") \/ Falsy(data, "password")
       THEN Finish(p, Response("register", 400, "Username and password required", 0, NoItems))
       ELSE IF UserByName(users, data.username) # {}
       THEN Finish(p, Response("register", 400, "Username already exists", 0, NoItems))
       ELSE Pending(p, [op |-> "add_user",
                        username |-> data.username,
                        password |-> hash_password(data.password, salt)])

\* db.commit() of register: the INSERT takes a value of the serial, then the
\* unique index decides.
commit_register(p) ==
    /\ pc[p] = "commit"
    /\ local[p].op = "add_user"
    /\ nextUserId' = nextUserId + 1
    /\ UNCHANGED <<SessionLocal, likes, nextLikeId, history>>
    /\ IF UniqueUsername(users, local[p].username)
       THEN /\ users' = users \cup {[id |-> nextUserId,
                                     username |-> local[p].username,
                                     password |-> local[p].password]}
            /\ Committed(p, Response("register", 200, "success", 0, NoItems))
       ELSE /\ users' = users
            /\ Committed(p, ServerError("register", "IntegrityError"))

\* POST /api/login.
login(p, data) ==
    /\ Free(p)
    /\ UNCHANGED <<SessionLocal, users, nextUserId, likes, nextLikeId, history>>
    /\ IF ~SessionLocal THEN Refuse("login")
       ELSE IF KeyError(data, "username")
       THEN Finish(p, ServerError("login", "KeyError"))
       ELSE LET found == UserByName(users, data.username) IN
            IF found = {}
            THEN Finish(p, Response("login", 401, "Invalid credentials", 0, NoItems))
            ELSE \E user \in found :
                   IF KeyError(data, "password")
                   THEN Finish(p, ServerError("login", "KeyError"))
                   ELSE IF ~verify_password(data.password, user.password)
                   THEN Finish(p, Response("login", 401, "Invalid credentials", 0, NoItems))
                   ELSE Finish(p, Response("login", 200, user.username, user.id, NoItems))

\* The workers whose toggle_like on the pair has queried and not yet committed.
InFlight(uid, sid) ==
    {q \in Procs : /\ pc[q] = "commit"
                   /\ local[q].op \in {"insert", "delete"}
                   /\ local[q].row.user_id = uid
                   /\ local[q].row.song_id = sid}

\* toggle_like of worker p goes on to its commit; the calls on the same pair
\* that are in flight are no longer alone (history: solo).
PendingLike(p, work) ==
    /\ pc' = [pc EXCEPT ![p] = "commit"]
    /\ local' = [q \in Procs |->
                    IF q = p THEN work
                    ELSE IF q \in InFlight(work.row.user_id, work.row.song_id)
                         THEN [local[q] EXCEPT !.solo = FALSE]
                         ELSE local[q]]
    /\ openSessions' = SessionOpen(openSessions)
    /\ UNCHANGED last

PendingInserts == {q \in Procs : pc[q] = "commit" /\ local[q].op = "insert"}

\* POST /api/like, up to db.commit().
toggle_like(p, data) ==
    /\ Free(p)
    /\ UNCHANGED <<SessionLocal, users, nextUserId, likes, nextLikeId, calls, orphaned>>
    /\ IF ~SessionLocal THEN Refuse("like") /\ UNCHANGED raced
       ELSE IF KeyError(data, "user_id") \/ KeyError(data, "song_id")
       THEN Finish(p, ServerError("like", "KeyError")) /\ UNCHANGED raced
       ELSE LET found == ExistingLikes(likes, data.user_id, data.song_id)
                overlap == InFlight(data.user_id, data.song_id) # {}
                mark == [raced EXCEPT ![<<data.user_id, data.song_id>>] = @ \/ overlap]
            IN  IF found # {}
                THEN \E existing \in found :
                        /\ PendingLike(p, [op |-> "delete", row |-> existing, solo |-> ~overlap])
                        /\ raced' = mark
                ELSE IF \E k \in {"title", "artist", "thumbnail"} : KeyError(data, k)
                THEN /\ Finish(p, ServerError("like", "KeyError"))
                     /\ UNCHANGED raced
                ELSE /\ nextLikeId + Cardinality(PendingInserts) <= MaxLikeId
                     /\ PendingLike(p, [op |-> "insert",
                                        row |-> [user_id |-> data.user_id,
                                                 song_id |-> data.song_id,
                                                 title |-> data.title,
                                                 artist |-> data.artist,
                                                 thumbnail |-> data.thumbnail],
                                        solo |-> ~overlap])
                     /\ raced' = mark

\* db.commit() of toggle_like.
commit_like(p) ==
    /\ pc[p] = "commit"
    /\ local[p].op \in {"insert", "delete"}
    /\ UNCHANGED <<SessionLocal, users, nextUserId, raced>>
    /\ LET row == local[p].row
           pair == <<row.user_id, row.song_id>>
       IN  /\ calls' = [calls EXCEPT ![pair] = @ + 1]
           /\ IF local[p].op = "delete"
              THEN /\ likes' = DeleteLike(likes, row)
                   /\ UNCHANGED <<nextLikeId, orphaned>>
                   /\ Committed(p, Response("like", 200, "unliked", 0, NoItems))
              ELSE /\ nextLikeId' = nextLikeId + 1
                   /\ IF ForeignKeyOk(users, row.user_id)
                      THEN /\ likes' = InsertLike(likes, [id |-> nextLikeId,
                                                          user_id |-> row.user_id,
                                                          song_id |-> row.song_id,
                                                          title |-> row.title,
                                                          artist |-> row.artist,
                                                          thumbnail |-> row.thumbnail])
                           /\ UNCHANGED orphaned
                           /\ Committed(p, Response("like", 200, "liked", 0, NoItems))
                      ELSE /\ likes' = likes
                           /\ orphaned' = [orphaned EXCEPT ![pair] = TRUE]
                           /\ Committed(p, ServerError("like", "IntegrityError"))

\* GET /api/liked/{user_id}.
get_liked(p, user_id) ==
    /\ Free(p)
    /\ UNCHANGED <<SessionLocal, users, nextUserId, likes, nextLikeId, history>>
    /\ IF ~SessionLocal THEN Refuse("liked")
       ELSE Finish(p, Response("liked", 200, "", 0, Items(LikedBy(likes, user_id))))

\* Sessions that no request in flight holds.
Leaked == openSessions - Cardinality({q \in Procs : pc[q] = "commit"})

\* GET /health, its database probe: ok is whether db.execute succeeds.
health_check(ok) ==
    /\ UNCHANGED <<SessionLocal, users, nextUserId, likes, nextLikeId, pc, local, history>>
    /\ IF ~SessionLocal
       THEN /\ last' = Response("health", 200, "disconnected", 0, NoItems)
            /\ UNCHANGED openSessions
       ELSE IF ok
       THEN /\ last' = Response("health", 200, "connected", 0, NoItems)
            /\ openSessions' = SessionClose(SessionOpen(openSessions))
       ELSE /\ Leaked < MaxLeaks
            /\ last' = Response("health", 200, "error", 0, NoItems)
            /\ openSessions' = SessionOpen(openSessions)

AuthRequests(registrations, salts, logins) ==
    \/ \E p \in Procs, data \in registrations, salt \in salts : register(p, data, salt)
    \/ \E p \in Procs : commit_register(p)
    \/ \E p \in Procs, data \in logins : login(p, data)

LikeRequests(bodies, ids) ==
    \/ \E p \in Procs, data \in bodies : toggle_like(p, data)
    \/ \E p \in Procs : commit_like(p)
    \/ \E p \in Procs, user_id \in ids : get_liked(p, user_id)

Probes == \E ok \in BOOLEAN : health_check(ok)

----------------------------------------------------------------------------
\* Spec: every route, over one username and one pair.

OneAuth ==
    {[username |-> "alice", password |-> "pw1"], [username |-> "alice"],
     [password |-> "pw1"]}

OneUserLikes ==
    {d \in FullLikeBodies : d.user_id = 1 /\ d.song_id = "T1"}
        \cup {Without([user_id |-> 1, song_id |-> "T1", title |-> "t",
                       artist |-> "a", thumbnail |-> "th"], k) : k \in LikeKeys}

Next ==
    \/ AuthRequests(OneAuth, {"s1"}, OneAuth)
    \/ LikeRequests(OneUserLikes, {1})
    \/ Probes

Spec == Init /\ [][Next]_vars

\* SpecAuth: registration and login over every body.
NextAuth == AuthRequests(AuthBodies, Salts, AuthBodies)

SpecAuth == Init /\ [][NextAuth]_vars

\* SpecAccounts: a database that already holds the account of bob (a state
\* SpecAuth reaches), the registrations of alice, every login, and the likes
\* of one pair.
AliceBodies ==
    {[username |-> "alice", password |-> "pw1"], [username |-> "alice", password |-> "pw2"]}

InitAccounts ==
    /\ SessionLocal = TRUE
    /\ users = {[id |-> 1, username |-> "bob", password |-> hash_password("pw2", "s2")]}
    /\ nextUserId = 2
    /\ likes = {}
    /\ nextLikeId = 1
    /\ pc = [p \in Procs |-> "idle"]
    /\ local = [p \in Procs |-> NoWork]
    /\ openSessions = 0
    /\ last = Response("register", 200, "success", 0, NoItems)
    /\ calls = [pr \in Pairs |-> 0]
    /\ raced = [pr \in Pairs |-> FALSE]
    /\ orphaned = [pr \in Pairs |-> FALSE]

NextAccounts ==
    \/ AuthRequests(AliceBodies, {"s1"}, AuthBodies)
    \/ LikeRequests({d \in FullLikeBodies : d.user_id = 1 /\ d.song_id = "T1"}, {1})

SpecAccounts == InitAccounts /\ [][NextAccounts]_vars

\* SpecFlip: one registration, and the likes of its user id, which names no
\* account until the registration commits.
NextFlip ==
    \/ AuthRequests({[username |-> "alice", password |-> "pw1"]}, {"s1"},
                    {[username |-> "alice", password |-> "pw1"]})
    \/ LikeRequests({d \in FullLikeBodies : d.user_id = 1}, {1})

SpecFlip == Init /\ [][NextFlip]_vars

\* SpecLikes: the likes of two accounts that the database already holds
\* (a state SpecAuth reaches: alice and bob registered one after the other).
Registered ==
    {[id |-> 1, username |-> "alice", password |-> hash_password("pw1", "s1")],
     [id |-> 2, username |-> "bob", password |-> hash_password("pw2", "s2")]}

InitLikes ==
    /\ SessionLocal = TRUE
    /\ users = Registered
    /\ nextUserId = 3
    /\ likes = {}
    /\ nextLikeId = 1
    /\ pc = [p \in Procs |-> "idle"]
    /\ local = [p \in Procs |-> NoWork]
    /\ openSessions = 0
    /\ last = Response("register", 200, "success", 0, NoItems)
    /\ calls = [pr \in Pairs |-> 0]
    /\ raced = [pr \in Pairs |-> FALSE]
    /\ orphaned = [pr \in Pairs |-> FALSE]

NextLikes == LikeRequests(FullLikeBodies, UserIds)

SpecLikes == InitLikes /\ [][NextLikes]_vars

----------------------------------------------------------------------------
\* Properties.

AccountsNamed(name) == {u \in users : u.username = name}
AccountsWithId(uid) == {u \in users : u.id = uid}
RowsOf(ls, uid, sid) == {l \in ls : l.user_id = uid /\ l.song_id = sid}
Given(data, k) == k \in DOMAIN data /\ data[k] # ""
Lacks(data, keys) == \E k \in keys : k \notin DOMAIN data
PairOf(p) == <<local[p].row.user_id, local[p].row.song_id>>
Odd(n) == n % 2 = 1

\* C1: a register of a username that no account has, with both fields given,
\* goes on to its commit, and committed while still no account has the name it
\* answers success and adds exactly that one account; a register of a username
\* that an account has answers 400 "Username already exists" and leaves both
\* tables, the stored hash included, as they were.
C1_RegisterThenDuplicate ==
    [][\A p \in Procs :
          /\ (commit_register(p) /\ AccountsNamed(local[p].username) = {})
                => /\ last'.route = "register" /\ last'.status = 200
                   /\ users \subseteq users'
                   /\ Cardinality(users') = Cardinality(users) + 1
                   /\ \E u \in users' \ users :
                          /\ u.username = local[p].username
                          /\ u.password = local[p].password
          /\ \A data \in AuthBodies, salt \in Salts :
                (/\ SessionLocal
                 /\ Given(data, "username") /\ Given(data, "password")
                 /\ pc[p] = "idle" /\ (pc'[p] = "commit" \/ last'.route = "register")
                 /\ register(p, data, salt))
                => IF AccountsNamed(data.username) = {}
                   THEN pc'[p] = "commit" /\ local'[p].username = data.username
                   ELSE /\ last'.route = "register" /\ last'.status = 400
                        /\ last'.detail = "Username already exists"
                        /\ pc'[p] = "idle"
                        /\ UNCHANGED tables
      ]_vars

\* C1: an account exists and a second register of its username was refused.
C1_DuplicateRefused ==
    /\ last.route = "register" /\ last.status = 400
    /\ last.detail = "Username already exists"
    /\ users # {}

\* C2: accounts are never changed or removed, and a login with both fields
\* answers 200 with the id and name of the account of that username exactly
\* when that account's stored hash is the hash of the given password, and
\* 401 "Invalid credentials" in every other case; it changes neither table.
C2_Authenticate ==
    [][/\ users \subseteq users'
       /\ \A p \in Procs, data \in AuthBodies :
            (/\ SessionLocal
             /\ "username" \in DOMAIN data /\ "password" \in DOMAIN data
             /\ pc[p] = "idle" /\ last'.route = "login"
             /\ login(p, data))
            => LET match == {u \in users :
                                /\ u.username = data.username
                                /\ \E salt \in Salts :
                                      u.password = hash_password(data.password, salt)}
               IN  /\ UNCHANGED tables
                   /\ last'.route = "login"
                   /\ IF match # {}
                      THEN /\ Cardinality(match) = 1
                           /\ last'.status = 200
                           /\ \E u \in match : /\ last'.user_id = u.id
                                               /\ last'.detail = u.username
                      ELSE /\ last'.status = 401
                           /\ last'.detail = "Invalid credentials"
      ]_vars

\* C2: the second account logged in, after a like was stored.
C2_LoggedIn ==
    /\ last.route = "login" /\ last.status = 200 /\ last.user_id = 2
    /\ likes # {}

\* C3 as claimed: on a pair whose toggle_like calls never overlapped, the
\* k-th call to commit answers liked if k is odd and unliked if k is even, and
\* leaves one row if k is odd and none if k is even.
C3_FlipLawAnyPair ==
    [][\A p \in Procs :
          (commit_like(p) /\ ~raced[PairOf(p)])
          => /\ last'.route = "like"
             /\ last'.detail = (IF Odd(calls'[PairOf(p)]) THEN "liked" ELSE "unliked")
             /\ Cardinality(RowsOf(likes', PairOf(p)[1], PairOf(p)[2]))
                    = calls'[PairOf(p)] % 2
      ]_vars

\* C3 as amended: the same, on the pairs whose user_id named an account at
\* every call (no insert for the pair was refused by the foreign key).
C3_FlipLaw ==
    [][\A p \in Procs :
          (commit_like(p) /\ ~raced[PairOf(p)] /\ ~orphaned'[PairOf(p)])
          => /\ last'.route = "like" /\ last'.status = 200
             /\ last'.detail = (IF Odd(calls'[PairOf(p)]) THEN "liked" ELSE "unliked")
             /\ Cardinality(RowsOf(likes', PairOf(p)[1], PairOf(p)[2]))
                    = calls'[PairOf(p)] % 2
      ]_vars

\* C3: the third call on a pair answered liked and left one row.
C3_ThirdCallLiked ==
    \E pr \in Pairs :
        /\ calls[pr] = 3 /\ ~raced[pr] /\ ~orphaned[pr]
        /\ last.route = "like" /\ last.detail = "liked"
        /\ Cardinality(RowsOf(likes, pr[1], pr[2])) = 1

\* C4: get_liked of a user id answers the song ids of the rows of that user
\* id and of no other, changes neither table, and, when no two toggles of that
\* user id overlapped, these are the songs it toggled an odd number of times.
C4_ListLikes ==
    [][\A p \in Procs, uid \in UserIds :
          get_liked(p, uid)
          => /\ UNCHANGED tables
             /\ last'.route = "liked" /\ last'.status = 200
             /\ DOMAIN last'.items = {l.song_id : l \in {r \in likes : r.user_id = uid}}
             /\ (\A s \in Songs : ~raced[<<uid, s>>] /\ ~orphaned[<<uid, s>>])
                   => DOMAIN last'.items = {s \in Songs : Odd(calls[<<uid, s>>])}
      ]_vars

\* C4: account 1 likes T1 alone, account 2 likes T2 alone, and the list of
\* account 1 was T1.
C4_OwnLikesListed ==
    /\ last.route = "liked" /\ DOMAIN last.items = {"T1"}
    /\ Cardinality(likes) = 2
    /\ RowsOf(likes, 1, "T1") # {}
    /\ RowsOf(likes, 2, "T2") # {}

\* C5 as claimed: a register, login or like whose body lacks a required
\* field ends, within its first step, in a client error (any 4xx status is
\* accepted here), with both tables unchanged.
C5_MissingFieldIs400 ==
    [][\A p \in Procs :
          /\ \A data \in OneAuth :
                (/\ Lacks(data, {"username", "password"})
                 /\ SessionLocal
                 /\ (register(p, data, "s1") \/ login(p, data)))
                => last'.status \in 400..499 /\ UNCHANGED tables
          /\ \A data \in OneUserLikes :
                (/\ Lacks(data, LikeKeys)
                 /\ SessionLocal
                 /\ toggle_like(p, data))
                => pc'[p] = "idle" /\ last'.status \in 400..499 /\ UNCHANGED tables
      ]_vars

\* C6: no two accounts have the same username.
C6_UniqueUsernames ==
    \A u1, u2 \in users : u1.username = u2.username => u1 = u2

\* C6: two registers of one username both passed the existence check, and
\* the commit of the second was refused.
C6_RaceRefused ==
    /\ last.route = "register" /\ last.status = 500
    /\ users # {}

\* C7: a toggle_like that finds no row of its pair goes on to insert, whether
\* or not another insert of the pair is in flight, and the commit of an insert
\* adds a row and answers liked even when the pair has a row already.
C7_RacingTogglesBothInsert ==
    [][\A p \in Procs :
          /\ \A data \in FullLikeBodies :
                (toggle_like(p, data) /\ RowsOf(likes, data.user_id, data.song_id) = {})
                => pc'[p] = "commit" /\ local'[p].op = "insert"
          /\ (commit_like(p) /\ local[p].op = "insert"
                             /\ AccountsWithId(local[p].row.user_id) # {})
                => /\ last'.route = "like" /\ last'.detail = "liked"
                   /\ Cardinality(RowsOf(likes', PairOf(p)[1], PairOf(p)[2]))
                        = Cardinality(RowsOf(likes, PairOf(p)[1], PairOf(p)[2])) + 1
      ]_vars

\* C7: a pair has two rows, and the last toggle answered liked.
C7_DuplicateRows ==
    /\ \E l1, l2 \in likes :
          l1 # l2 /\ l1.user_id = l2.user_id /\ l1.song_id = l2.song_id
    /\ last.route = "like" /\ last.detail = "liked"

\* C8 as claimed: the open sessions are those of the requests in flight, so
\* that none is open once every request has completed.
C8_NoSessionLeak ==
    openSessions = Cardinality({p \in Procs : pc[p] = "commit"})

C10_ToggleResultMatchesList ==
    [][\A p \in Procs :
          (commit_like(p) /\ local[p].solo)
          => LET uid == PairOf(p)[1]
                 sid == PairOf(p)[2]
                 items == Items(LikedBy(likes', uid))
             IN  /\ last'.detail = "unliked" => sid \notin DOMAIN items
                 /\ last'.detail = "liked" => (sid \in DOMAIN items /\ items[sid] = 1)
      ]_vars

====
